---- MODULE Spec2Model ----
(***************************************************************************)
(* The thumbnail cache of thumbnailify: the freshness rule, the external   *)
(* helper orchestrator (src/src/thumbnailer.rs), the in-process batch      *)
(* generator (src/thumbnailify/src/thumbnail.rs) and the earlier helper    *)
(* orchestrator (src/thumbnailify/src/thumbnailer.rs), all acting on one   *)
(* cache directory tree.                                                   *)
(***************************************************************************)
EXTENDS Integers, Sequences, FiniteSets, TLC

\* ------------------------------------------------------------------ bounds
\* Source mtimes (whole seconds) range over 0..MaxMTime.
MaxMTime == 1
\* Source lengths (bytes) range over 0..MaxLen.
MaxLen == 1
\* Calls that may be in progress at once.
MaxProcs == 2
\* Descriptor files in one thumbnailers directory.
MaxFiles == 1
\* Entries of XDG_DATA_DIRS.
MaxXdgDirs == 2
\* Characters of a descriptor's Exec line.
MaxExecLen == 3
\* Width and height of a source image, in pixels.
MaxSide == 12

MTimes == 0..MaxMTime
Lens == 0..MaxLen
Procs == 1..MaxProcs

\* ------------------------------------------------------------- text values
\* A text is a sequence of one-character strings.
DigitChars == <<"0", "1", "2", "3", "4", "5", "6", "7", "8", "9">>

IsDigit(c) == \E i \in 1..Len(DigitChars) : DigitChars[i] = c

DigitOf(c) == (CHOOSE i \in 1..Len(DigitChars) : DigitChars[i] = c) - 1

RECURSIVE to_string(_)
\* u64::to_string: the decimal digits of n, most significant first.
to_string(n) ==
    IF n < Len(DigitChars) THEN <<DigitChars[n + 1]>>
    ELSE Append(to_string(n \div Len(DigitChars)), DigitChars[(n % Len(DigitChars)) + 1])

RECURSIVE DigitsValue(_)
DigitsValue(t) ==
    IF t = <<>> THEN 0
    ELSE DigitsValue(SubSeq(t, 1, Len(t) - 1)) * Len(DigitChars) + DigitOf(t[Len(t)])

\* str::parse::<u64>().unwrap_or(0): a text that is no unsigned decimal counts as 0.
parse_u64_or_0(t) ==
    IF t # <<>> /\ \A i \in 1..Len(t) : IsDigit(t[i]) THEN DigitsValue(t) ELSE 0

\* A text that is no number.
NonNumericText == <<"x">>

\* ------------------------------------------------------------------- files
Absent == [kind |-> "absent"]
\* A file that is no decodable PNG: empty (just created or truncated), partly
\* written, or holding something else.
Partial == [kind |-> "partial"]
\* A decodable PNG: its pixels and its Latin-1 text chunks in file order.
Png(pix, texts) == [kind |-> "png", pix |-> pix, texts |-> texts]

Chunk(k, t) == [keyword |-> k, text |-> t]

HasText(texts, k) == \E i \in 1..Len(texts) : texts[i].keyword = k

\* texts.iter().find(|c| c.keyword == k): the first chunk with that keyword.
FindText(texts, k) ==
    LET i == CHOOSE j \in 1..Len(texts) :
                 /\ texts[j].keyword = k
                 /\ \A l \in 1..(j - 1) : texts[l].keyword # k
    IN texts[i].text

\* is_thumbnail_up_to_date accepting a file that has no Thumb::MTime chunk.
is_thumbnail_up_to_date_without_mtime(f, s) ==
    IF f.kind # "png" THEN FALSE
    ELSE IF ~s.exists THEN FALSE
    ELSE IF /\ HasText(f.texts, "Thumb::MTime")
            /\ parse_u64_or_0(FindText(f.texts, "Thumb::MTime")) # s.mtime THEN FALSE
    ELSE IF /\ HasText(f.texts, "Thumb::Size")
            /\ parse_u64_or_0(FindText(f.texts, "Thumb::Size")) # s.len THEN FALSE
    ELSE TRUE

\* is_thumbnail_up_to_date without the comparison of Thumb::Size.
is_thumbnail_up_to_date_ignoring_size(f, s) ==
    IF f.kind # "png" THEN FALSE
    ELSE IF ~HasText(f.texts, "Thumb::MTime") THEN FALSE
    ELSE IF ~s.exists THEN FALSE
    ELSE parse_u64_or_0(FindText(f.texts, "Thumb::MTime")) = s.mtime

\* is_thumbnail_up_to_date(thumb_path, source_path), on the file found at
\* thumb_path and the source's metadata.
is_thumbnail_up_to_date(f, s) ==
    IF f.kind # "png" THEN FALSE
    ELSE IF ~HasText(f.texts, "Thumb::MTime") THEN FALSE
    ELSE IF ~s.exists THEN FALSE
    ELSE IF parse_u64_or_0(FindText(f.texts, "Thumb::MTime")) # s.mtime THEN FALSE
    ELSE IF /\ HasText(f.texts, "Thumb::Size")
            /\ parse_u64_or_0(FindText(f.texts, "Thumb::Size")) # s.len THEN FALSE
    ELSE TRUE

\* ------------------------------------------------------------------- paths
\* The one source file of the model, by its canonical absolute path, and the
\* spellings a caller may pass for it.
CanonPath == "/d/a"
InputPaths == {"/d/a", "a"}
\* A symbolic link to the source, by its absolute path.
LinkPath == "/d/l"
IsAbsolute(p) == p \in {"/d/a", LinkPath}

\* get_file_uri using the path as it was passed, without canonicalize.
get_file_uri_without_canonicalize(input, s) ==
    IF IsAbsolute(input) THEN "file://" \o input ELSE "err"

\* get_file_uri: canonicalize, falling back to the raw path; a path that is
\* not absolute has no file URL.
get_file_uri(input, s) ==
    LET canonical == IF s.exists THEN CanonPath ELSE input
    IN IF IsAbsolute(canonical) THEN "file://" \o canonical ELSE "err"

\* compute_hash: the MD5 hex digest of the URI, kept symbolic.
compute_hash(uri) == "md5:" \o uri

Hashes == {compute_hash("file://" \o CanonPath)}

\* ThumbnailSize and its directory names.
Sizes == {"normal", "large"}
FailDir == "fail/thumbnailify"

get_thumbnail_hash_output(hash, size) == <<size, hash>>
get_failed_thumbnail_output(hash) == <<FailDir, hash>>

CachePaths == (Sizes \cup {FailDir}) \X Hashes
NoPath == <<"none", "none">>

\* ------------------------------------------------------ provenance chunks
\* add_thumbnail_metadata without its Thumb::MTime chunk.
add_thumbnail_metadata_texts_no_mtime(existing, uri, s) ==
    existing \o << Chunk("Software", <<"Thumbnailify">>),
                   Chunk("Thumb::URI", <<uri>>),
                   Chunk("Thumb::Size", to_string(s.len)) >>

\* write_out_thumbnail without its Thumb::MTime chunk.
write_out_thumbnail_texts_no_mtime(uri, s) ==
    << Chunk("Software", <<"Thumbnailify">>),
       Chunk("Thumb::URI", <<uri>>),
       Chunk("Thumb::Size", to_string(s.len)) >>

\* The four chunks add_thumbnail_metadata appends after the chunks the file
\* already carries (src/src/file.rs).
add_thumbnail_metadata_texts(existing, uri, s) ==
    existing \o << Chunk("Software", <<"Thumbnailify">>),
                   Chunk("Thumb::URI", <<uri>>),
                   Chunk("Thumb::Size", to_string(s.len)),
                   Chunk("Thumb::MTime", to_string(s.mtime)) >>

\* The chunks thumbnailify's write_out_thumbnail encodes with the image
\* (src/thumbnailify/src/file.rs).
write_out_thumbnail_texts(uri, s) ==
    << Chunk("Software", <<"Thumbnailify">>),
       Chunk("Thumb::URI", <<uri>>),
       Chunk("Thumb::Size", to_string(s.len)),
       Chunk("Thumb::MTime", to_string(s.mtime)) >>

\* ------------------------------------------------------------ environment
\* The source's content: an image, a file no decoder accepts, or an image the
\* resizer rejects (zero width or height).
SourceKinds == {"good", "undecodable", "unresizable"}
NoSource == [exists |-> FALSE, mtime |-> 0, len |-> 0, kind |-> "good"]
Sources ==
    [exists : {TRUE}, mtime : MTimes, len : Lens, kind : SourceKinds] \cup {NoSource}

\* What find_thumbnailer and which() find for the source's MIME type when a
\* call looks: no descriptor, a descriptor without TryExec (or with one that
\* is on PATH), a descriptor whose TryExec is not on PATH.
Configs == { [helper |-> "none", try_exec |-> "none"],
             [helper |-> "found", try_exec |-> "none"],
             [helper |-> "found", try_exec |-> "missing"] }

\* Text chunks an external helper may leave in the PNG it writes.
HelperTexts ==
    {<<>>} \cup { <<Chunk(k, t)>> : k \in {"Thumb::MTime"}, t \in {NonNumericText} }

\* What running the helper does: it cannot be spawned, or it exits with a
\* status after leaving something in the temp file it was given.
HelperRuns ==
    { [exit |-> "spawn_error", out |-> Partial],
      [exit |-> "nonzero", out |-> Partial],
      [exit |-> "zero", out |-> Partial] }
    \cup { [exit |-> "zero", out |-> Png("image", t)] : t \in HelperTexts }

\* ------------------------------------------------------------------ state
VARIABLES
    src,    \* the source file: existence, mtime, length, content kind
    fs,     \* the cache tree: CachePaths -> file
    temps,  \* each call's NamedTempFile in the thumbnail directory
    call,   \* each call in progress: position, arguments, locals, result
    touched \* the source's mtime was changed and no call has started since

vars == <<src, fs, temps, call, touched>>

IdleCall ==
    [ pc |-> "idle", op |-> "none", file |-> "none", sizes |-> <<>>, todo |-> <<>>,
      hash |-> "none", img |-> "none", cfg |-> "none", exit |-> "none",
      touched |-> FALSE, ok |-> FALSE, path |-> NoPath, err |-> "none",
      outcome |-> "none", work |-> FALSE, buf |-> Absent,
      pre |-> [q \in CachePaths |-> Absent] ]

NewCall(op, file, sizes) ==
    [ IdleCall EXCEPT !.op = op, !.sizes = sizes, !.pre = fs, !.touched = touched,
                      \* the path the later steps resolve the source by
                      !.file = IF src.exists THEN CanonPath ELSE file ]

\* The call returns: Ok(path) or Err(err).
Return(c, ok, path, err, outcome) ==
    [ c EXCEPT !.pc = "done", !.ok = ok, !.path = path, !.err = err,
               !.outcome = outcome ]

AllIdle == \A p \in Procs : call[p].pc = "idle"

Init ==
    /\ src = [exists |-> TRUE, mtime |-> 0, len |-> 0, kind |-> "good"]
    /\ fs = [q \in CachePaths |-> Absent]
    /\ temps = [p \in Procs |-> Absent]
    /\ call = [p \in Procs |-> IdleCall]
    /\ touched = FALSE

\* ---------------------------------------------------- environment actions
\* Another program rewrites, touches, removes or creates the source file.
ModifySource ==
    /\ AllIdle
    /\ \E s \in Sources :
        /\ s # src
        /\ src' = s
        /\ touched' = (src.exists /\ s.exists /\ s.mtime # src.mtime)
    /\ UNCHANGED <<fs, temps, call>>

\* ------------------------------------ generate_thumbnail (src/src/thumbnailer.rs)
\* The checks of generate_thumbnail with a fresh fail marker answered by an
\* error instead of Ok(fail_path).
generate_thumbnail_check_negative_is_error(file, size, cfg) ==
    LET hash == compute_hash(get_file_uri(file, src))
        fail_path == get_failed_thumbnail_output(hash)
        thumb_path == get_thumbnail_hash_output(hash, size)
    IN  IF ~src.exists
          THEN [ok |-> FALSE, path |-> NoPath, err |-> "Io", outcome |-> "missing_source"]
        ELSE IF fs[fail_path].kind # "absent" /\ is_thumbnail_up_to_date(fs[fail_path], src)
          THEN [ok |-> FALSE, path |-> fail_path, err |-> "Io", outcome |-> "hit_neg"]
        ELSE IF fs[thumb_path].kind # "absent" /\ is_thumbnail_up_to_date(fs[thumb_path], src)
          THEN [ok |-> TRUE, path |-> thumb_path, err |-> "none", outcome |-> "hit_pos"]
        ELSE IF cfg.helper = "none"
          THEN [ok |-> FALSE, path |-> NoPath, err |-> "Io", outcome |-> "no_helper"]
        ELSE IF cfg.try_exec = "missing"
          THEN [ok |-> FALSE, path |-> NoPath, err |-> "Io", outcome |-> "helper_missing"]
        ELSE [ok |-> FALSE, path |-> NoPath, err |-> "none", outcome |-> "run_helper"]

\* The checks of generate_thumbnail without the TryExec lookup.
generate_thumbnail_check_no_try_exec(file, size, cfg) ==
    LET hash == compute_hash(get_file_uri(file, src))
        fail_path == get_failed_thumbnail_output(hash)
        thumb_path == get_thumbnail_hash_output(hash, size)
    IN  IF ~src.exists
          THEN [ok |-> FALSE, path |-> NoPath, err |-> "Io", outcome |-> "missing_source"]
        ELSE IF fs[fail_path].kind # "absent" /\ is_thumbnail_up_to_date(fs[fail_path], src)
          THEN [ok |-> TRUE, path |-> fail_path, err |-> "none", outcome |-> "hit_neg"]
        ELSE IF fs[thumb_path].kind # "absent" /\ is_thumbnail_up_to_date(fs[thumb_path], src)
          THEN [ok |-> TRUE, path |-> thumb_path, err |-> "none", outcome |-> "hit_pos"]
        ELSE IF cfg.helper = "none"
          THEN [ok |-> FALSE, path |-> NoPath, err |-> "Io", outcome |-> "no_helper"]
        ELSE [ok |-> FALSE, path |-> NoPath, err |-> "none", outcome |-> "run_helper"]

\* The checks of generate_thumbnail with the thumbnail looked at before the
\* fail marker.
generate_thumbnail_check_positive_first(file, size, cfg) ==
    LET hash == compute_hash(get_file_uri(file, src))
        fail_path == get_failed_thumbnail_output(hash)
        thumb_path == get_thumbnail_hash_output(hash, size)
    IN  IF ~src.exists
          THEN [ok |-> FALSE, path |-> NoPath, err |-> "Io", outcome |-> "missing_source"]
        ELSE IF fs[thumb_path].kind # "absent" /\ is_thumbnail_up_to_date(fs[thumb_path], src)
          THEN [ok |-> TRUE, path |-> thumb_path, err |-> "none", outcome |-> "hit_pos"]
        ELSE IF fs[fail_path].kind # "absent" /\ is_thumbnail_up_to_date(fs[fail_path], src)
          THEN [ok |-> TRUE, path |-> fail_path, err |-> "none", outcome |-> "hit_neg"]
        ELSE IF cfg.helper = "none"
          THEN [ok |-> FALSE, path |-> NoPath, err |-> "Io", outcome |-> "no_helper"]
        ELSE IF cfg.try_exec = "missing"
          THEN [ok |-> FALSE, path |-> NoPath, err |-> "Io", outcome |-> "helper_missing"]
        ELSE [ok |-> FALSE, path |-> NoPath, err |-> "none", outcome |-> "run_helper"]

\* Lines 243-306: what the call decides before it writes anything.
generate_thumbnail_check(file, size, cfg) ==
    LET hash == compute_hash(get_file_uri(file, src))
        fail_path == get_failed_thumbnail_output(hash)
        thumb_path == get_thumbnail_hash_output(hash, size)
    IN  IF ~src.exists
          THEN [ok |-> FALSE, path |-> NoPath, err |-> "Io", outcome |-> "missing_source"]
        ELSE IF fs[fail_path].kind # "absent" /\ is_thumbnail_up_to_date(fs[fail_path], src)
          THEN [ok |-> TRUE, path |-> fail_path, err |-> "none", outcome |-> "hit_neg"]
        ELSE IF fs[thumb_path].kind # "absent" /\ is_thumbnail_up_to_date(fs[thumb_path], src)
          THEN [ok |-> TRUE, path |-> thumb_path, err |-> "none", outcome |-> "hit_pos"]
        ELSE IF cfg.helper = "none"
          THEN [ok |-> FALSE, path |-> NoPath, err |-> "Io", outcome |-> "no_helper"]
        ELSE IF cfg.try_exec = "missing"
          THEN [ok |-> FALSE, path |-> NoPath, err |-> "Io", outcome |-> "helper_missing"]
        ELSE [ok |-> FALSE, path |-> NoPath, err |-> "none", outcome |-> "run_helper"]

\* Lines 239-321: the checks, then the temp file created in the thumbnail directory.
generate_thumbnail_enter(p, file, size, cfg) ==
    /\ call[p].pc = "idle"
    /\ LET r == generate_thumbnail_check(file, size, cfg)
           c == [ NewCall("generate_thumbnail", file, <<size>>)
                    EXCEPT !.cfg = cfg.helper \o "/" \o cfg.try_exec,
                           !.hash = IF src.exists
                                    THEN compute_hash(get_file_uri(file, src))
                                    ELSE "none" ]
       IN IF r.outcome = "run_helper"
          THEN /\ temps' = [temps EXCEPT ![p] = Partial]
               /\ call' = [call EXCEPT ![p] = [c EXCEPT !.pc = "exec"]]
          ELSE /\ temps' = temps
               /\ call' = [call EXCEPT ![p] = Return(c, r.ok, r.path, r.err, r.outcome)]
    /\ touched' = FALSE
    /\ UNCHANGED <<src, fs>>

\* A call made while no other call is in progress.
generate_thumbnail(p, file, size, cfg) ==
    /\ AllIdle
    /\ generate_thumbnail_enter(p, file, size, cfg)

\* Lines 323-385: the command is built and the helper runs (under bwrap or not).
generate_thumbnail_exec(p) ==
    /\ call[p].pc = "exec"
    /\ \E run \in HelperRuns :
        IF run.exit = "spawn_error"
        THEN /\ temps' = [temps EXCEPT ![p] = Absent]
             /\ call' = [call EXCEPT ![p] = Return(@, FALSE, NoPath, "Io", "spawn_error")]
        ELSE /\ temps' = [temps EXCEPT ![p] = run.out]
             /\ call' = [call EXCEPT ![p] =
                           [@ EXCEPT !.work = TRUE, !.exit = run.exit,
                                     !.pc = IF run.exit = "zero" THEN "attach"
                                            ELSE "fail_create"]]
    /\ UNCHANGED <<src, fs, touched>>

\* Line 388: add_thumbnail_metadata(&temp_path, &abs_path).
generate_thumbnail_attach(p) ==
    /\ call[p].pc = "attach"
    /\ IF temps[p].kind # "png"
       THEN /\ temps' = [temps EXCEPT ![p] = Absent]
            /\ call' = [call EXCEPT ![p] =
                          Return(@, FALSE, NoPath, "PngDecoding", "attach_failed")]
       ELSE IF ~src.exists
       THEN /\ temps' = [temps EXCEPT ![p] = Absent]
            /\ call' = [call EXCEPT ![p] = Return(@, FALSE, NoPath, "Io", "attach_failed")]
       ELSE /\ temps' = [temps EXCEPT ![p] =
                           Png(@.pix,
                               add_thumbnail_metadata_texts(@.texts,
                                   get_file_uri(CanonPath, src), src))]
            /\ call' = [call EXCEPT ![p] = [@ EXCEPT !.pc = "persist"]]
    /\ UNCHANGED <<src, fs, touched>>

\* The rename of generate_thumbnail followed by the removal of the fail marker.
generate_thumbnail_persist_removing_fail_marker(p) ==
    /\ call[p].pc = "persist"
    /\ LET thumb_path == get_thumbnail_hash_output(call[p].hash, call[p].sizes[1])
           fail_path == get_failed_thumbnail_output(call[p].hash)
       IN \E renamed \in BOOLEAN :
            IF renamed
            THEN /\ fs' = [fs EXCEPT ![thumb_path] = temps[p], ![fail_path] = Absent]
                 /\ temps' = [temps EXCEPT ![p] = Absent]
                 /\ call' = [call EXCEPT ![p] = Return(@, TRUE, thumb_path, "none", "commit")]
            ELSE /\ fs' = fs
                 /\ temps' = temps
                 /\ call' = [call EXCEPT ![p] =
                               Return(@, FALSE, NoPath, "Persist", "persist_failed")]
    /\ UNCHANGED <<src, touched>>

\* Lines 391-392: named_temp.persist(&thumb_path), an atomic rename that may fail.
generate_thumbnail_persist(p) ==
    /\ call[p].pc = "persist"
    /\ LET thumb_path == get_thumbnail_hash_output(call[p].hash, call[p].sizes[1])
       IN \E renamed \in BOOLEAN :
            IF renamed
            THEN /\ fs' = [fs EXCEPT ![thumb_path] = temps[p]]
                 /\ temps' = [temps EXCEPT ![p] = Absent]
                 /\ call' = [call EXCEPT ![p] = Return(@, TRUE, thumb_path, "none", "commit")]
            ELSE /\ fs' = fs
                 /\ temps' = temps
                 /\ call' = [call EXCEPT ![p] =
                               Return(@, FALSE, NoPath, "Persist", "persist_failed")]
    /\ UNCHANGED <<src, touched>>

\* The failure branch of generate_thumbnail removing, with the temp file, the
\* thumbnails of every size the source has in the cache.
generate_thumbnail_fail_create_dropping_thumbnails(p) ==
    /\ call[p].pc = "fail_create"
    /\ temps' = [temps EXCEPT ![p] = Absent]
    /\ fs' = [q \in CachePaths |->
                IF q = get_failed_thumbnail_output(call[p].hash) THEN Partial
                ELSE IF q[2] = call[p].hash THEN Absent
                ELSE fs[q]]
    /\ call' = [call EXCEPT ![p] = [@ EXCEPT !.pc = "fail_write"]]
    /\ UNCHANGED <<src, touched>>

\* Lines 399-407: the temp file is dropped and write_failed_thumbnail creates
\* the fail marker in place (File::create in write_out_thumbnail).
generate_thumbnail_fail_create(p) ==
    /\ call[p].pc = "fail_create"
    /\ temps' = [temps EXCEPT ![p] = Absent]
    /\ fs' = [fs EXCEPT ![get_failed_thumbnail_output(call[p].hash)] = Partial]
    /\ call' = [call EXCEPT ![p] = [@ EXCEPT !.pc = "fail_write"]]
    /\ UNCHANGED <<src, touched>>

\* src/src/file.rs write_out_thumbnail: the 1x1 transparent image is encoded,
\* with no text chunk.
generate_thumbnail_fail_write(p) ==
    /\ call[p].pc = "fail_write"
    /\ fs' = [fs EXCEPT ![get_failed_thumbnail_output(call[p].hash)] =
                Png("blank1x1", <<>>)]
    /\ call' = [call EXCEPT ![p] = [@ EXCEPT !.pc = "fail_meta"]]
    /\ UNCHANGED <<src, temps, touched>>

\* Line 408, add_thumbnail_metadata(&fail_path, &abs_path), first half: the
\* marker is decoded and then truncated by File::create.
generate_thumbnail_fail_meta(p) ==
    /\ call[p].pc = "fail_meta"
    /\ LET fail_path == get_failed_thumbnail_output(call[p].hash)
       IN IF fs[fail_path].kind # "png"
          THEN /\ fs' = fs
               /\ call' = [call EXCEPT ![p] =
                             Return(@, FALSE, NoPath, "PngDecoding", "marker_failed")]
          ELSE /\ fs' = [fs EXCEPT ![fail_path] = Partial]
               /\ call' = [call EXCEPT ![p] =
                             [@ EXCEPT !.pc = "fail_meta_write", !.buf = fs[fail_path]]]
    /\ UNCHANGED <<src, temps, touched>>

\* Second half: the marker is re-encoded with the provenance chunks, and the
\* call returns its error (lines 410-413).
generate_thumbnail_fail_meta_write(p) ==
    /\ call[p].pc = "fail_meta_write"
    /\ LET fail_path == get_failed_thumbnail_output(call[p].hash)
       IN IF ~src.exists
          THEN /\ fs' = fs
               /\ call' = [call EXCEPT ![p] =
                             Return(@, FALSE, NoPath, "Io", "marker_failed")]
          ELSE /\ fs' = [fs EXCEPT ![fail_path] =
                           Png(call[p].buf.pix,
                               add_thumbnail_metadata_texts(call[p].buf.texts,
                                   get_file_uri(CanonPath, src), src))]
               /\ call' = [call EXCEPT ![p] =
                             Return(@, FALSE, NoPath, "Io", "helper_failed")]
    /\ UNCHANGED <<src, temps, touched>>

\* The caller takes the result and drops it; a PersistError still holding the
\* NamedTempFile removes the temp file when it is dropped.
Reap(p) ==
    /\ call[p].pc = "done"
    /\ temps' = [temps EXCEPT ![p] = Absent]
    /\ call' = [call EXCEPT ![p] = IdleCall]
    /\ UNCHANGED <<src, fs, touched>>

\* --------------------- create_thumbnails (src/thumbnailify/src/thumbnail.rs)
SizeLists == { <<"normal">>, <<"large">>, <<"normal", "large">> }

\* Lines 135-143: the requested sizes whose thumbnail is missing or out of date.
sizes_to_update(hash, sizes) ==
    SelectSeq(sizes, LAMBDA size :
        LET output_path == get_thumbnail_hash_output(hash, size)
        IN fs[output_path].kind = "absent"
           \/ ~is_thumbnail_up_to_date(fs[output_path], src))

\* parse_file: a missing file and a file no decoder accepts are errors.
parse_file(s) == IF ~s.exists THEN "NotFound"
                 ELSE IF s.kind = "undecodable" THEN "Decoding"
                 ELSE "ok"

\* The checks of create_thumbnails without the look at the fail marker.
create_thumbnails_check_no_fail_check(input, sizes) ==
    LET uri == get_file_uri(input, src)
        hash == compute_hash(uri)
    IN  IF uri = "err" THEN "bad_uri"
        ELSE IF sizes_to_update(hash, sizes) = <<>> THEN "hit_pos"
        ELSE IF parse_file(src) # "ok" THEN "parse_failed"
        ELSE "resize"

\* Lines 122-166: what the call decides before it writes anything.
create_thumbnails_check(input, sizes) ==
    LET uri == get_file_uri(input, src)
        hash == compute_hash(uri)
        fail_path == get_failed_thumbnail_output(hash)
    IN  IF uri = "err" THEN "bad_uri"
        ELSE IF fs[fail_path].kind # "absent" /\ is_thumbnail_up_to_date(fs[fail_path], src)
          THEN "hit_neg"
        ELSE IF sizes_to_update(hash, sizes) = <<>> THEN "hit_pos"
        ELSE IF parse_file(src) # "ok" THEN "parse_failed"
        ELSE "resize"

create_thumbnails(p, input, sizes) ==
    /\ AllIdle
    /\ LET r == create_thumbnails_check(input, sizes)
           hash == compute_hash(get_file_uri(input, src))
           c == [ NewCall("create_thumbnails", input, sizes)
                    EXCEPT !.hash = IF r = "bad_uri" THEN "none" ELSE hash ]
       IN call' = [call EXCEPT ![p] =
            CASE r = "bad_uri" -> Return(c, FALSE, NoPath, "Io", "bad_uri")
              [] r = "hit_neg" -> Return(c, TRUE, NoPath, "none", "hit_neg")
              [] r = "hit_pos" -> Return(c, TRUE, NoPath, "none", "hit_pos")
              [] r = "parse_failed" ->
                    [c EXCEPT !.pc = "ct_fail_open", !.img = parse_file(src),
                              !.work = src.exists]
              [] OTHER ->
                    [c EXCEPT !.pc = "ct_open", !.img = src.kind, !.work = TRUE,
                              !.todo = sizes_to_update(hash, sizes)] ]
    /\ touched' = FALSE
    /\ UNCHANGED <<src, fs, temps>>

\* Lines 169-180: the next size is resized (generate_thumbnail of thumbnail.rs
\* rejects an image without size) and write_out_thumbnail creates the output
\* file at its final path; on a resize error the fail marker is created instead.
create_thumbnails_open(p) ==
    /\ call[p].pc = "ct_open"
    /\ LET output_path == get_thumbnail_hash_output(call[p].hash, Head(call[p].todo))
           fail_path == get_failed_thumbnail_output(call[p].hash)
       IN IF call[p].img = "unresizable"
          THEN /\ fs' = [fs EXCEPT ![fail_path] = Partial]
               /\ call' = [call EXCEPT ![p] = [@ EXCEPT !.pc = "ct_fail_write"]]
          ELSE /\ fs' = [fs EXCEPT ![output_path] = Partial]
               /\ call' = [call EXCEPT ![p] = [@ EXCEPT !.pc = "ct_write"]]
    /\ UNCHANGED <<src, temps, touched>>

\* The loop goes on to the next size, or the call returns Ok(()) (line 195).
NextSize(c) ==
    IF Len(c.todo) > 1 THEN [c EXCEPT !.pc = "ct_open", !.todo = Tail(c.todo)]
    ELSE Return([c EXCEPT !.todo = <<>>], TRUE, NoPath, "none", "batch_done")

\* src/thumbnailify/src/file.rs write_out_thumbnail after File::create: the
\* source's metadata is read and the PNG is encoded with its text chunks.
create_thumbnails_write(p) ==
    /\ call[p].pc = "ct_write"
    /\ LET output_path == get_thumbnail_hash_output(call[p].hash, Head(call[p].todo))
       IN IF ~src.exists
          THEN /\ fs' = fs
               /\ call' = [call EXCEPT ![p] = Return(@, FALSE, NoPath, "Io", "write_failed")]
          ELSE /\ fs' = [fs EXCEPT ![output_path] =
                           Png("image",
                               write_out_thumbnail_texts(get_file_uri(call[p].file, src), src))]
               /\ call' = [call EXCEPT ![p] = NextSize(@)]
    /\ UNCHANGED <<src, temps, touched>>

\* Lines 155-164: parse_file failed; the fail marker's directory is made and
\* write_failed_thumbnail_with_dynamic_image creates the marker in place.
create_thumbnails_fail_open(p) ==
    /\ call[p].pc = "ct_fail_open"
    /\ fs' = [fs EXCEPT ![get_failed_thumbnail_output(call[p].hash)] = Partial]
    /\ call' = [call EXCEPT ![p] = [@ EXCEPT !.pc = "ct_fail_write"]]
    /\ UNCHANGED <<src, temps, touched>>

\* write_failed_thumbnail_with_dynamic_image: the 1x1 transparent image goes
\* through write_out_thumbnail, with the source's provenance.
write_failed_thumbnail_with_dynamic_image(s, uri) ==
    Png("blank1x1", write_out_thumbnail_texts(uri, s))

\* The marker is encoded. After a parse error the call returns that error
\* (line 164); after a resize error the loop goes on (line 190).
create_thumbnails_fail_write(p) ==
    /\ call[p].pc = "ct_fail_write"
    /\ LET fail_path == get_failed_thumbnail_output(call[p].hash)
       IN IF ~src.exists
          THEN /\ fs' = fs
               /\ call' = [call EXCEPT ![p] =
                             Return(@, FALSE, NoPath, "Io", "marker_failed")]
          ELSE /\ fs' = [fs EXCEPT ![fail_path] =
                           write_failed_thumbnail_with_dynamic_image(src,
                               get_file_uri(call[p].file, src))]
               /\ call' = [call EXCEPT ![p] =
                             IF call[p].img = "unresizable" THEN NextSize(@)
                             ELSE Return(@, FALSE, NoPath, "Image", "decode_failed")]
    /\ UNCHANGED <<src, temps, touched>>

\* ------------- generate_thumbnail of src/thumbnailify/src/thumbnailer.rs
\* Lines 115-153: what the call decides before it writes anything.
thumbnailify_generate_thumbnail_check(file, size, cfg) ==
    LET hash == compute_hash(get_file_uri(file, src))
        thumb_path == get_thumbnail_hash_output(hash, size)
    IN  IF ~src.exists THEN [ok |-> FALSE, outcome |-> "missing_source"]
        ELSE IF fs[thumb_path].kind # "absent" /\ is_thumbnail_up_to_date(fs[thumb_path], src)
          THEN [ok |-> TRUE, outcome |-> "hit_pos"]
        ELSE IF cfg.helper = "none" THEN [ok |-> FALSE, outcome |-> "no_helper"]
        ELSE IF cfg.try_exec = "missing" THEN [ok |-> FALSE, outcome |-> "helper_missing"]
        ELSE [ok |-> FALSE, outcome |-> "run_helper"]

\* Lines 113-168: the checks, then the temp file created in the thumbnail directory.
thumbnailify_generate_thumbnail(p, file, size, cfg) ==
    /\ AllIdle
    /\ LET r == thumbnailify_generate_thumbnail_check(file, size, cfg)
           hash == compute_hash(get_file_uri(file, src))
           c == [ NewCall("thumbnailify_generate_thumbnail", file, <<size>>)
                    EXCEPT !.cfg = cfg.helper \o "/" \o cfg.try_exec,
                           !.hash = IF src.exists THEN hash ELSE "none" ]
       IN IF r.outcome = "run_helper"
          THEN /\ temps' = [temps EXCEPT ![p] = Partial]
               /\ call' = [call EXCEPT ![p] = [c EXCEPT !.pc = "old_exec"]]
          ELSE /\ temps' = temps
               /\ call' = [call EXCEPT ![p] =
                     Return(c, r.ok,
                            IF r.ok THEN get_thumbnail_hash_output(hash, size) ELSE NoPath,
                            IF r.ok THEN "none" ELSE "Io", r.outcome)]
    /\ touched' = FALSE
    /\ UNCHANGED <<src, fs>>

\* Lines 170-201: the helper runs; on exit status 0 the temp file is persisted
\* as it is, otherwise it is dropped and an empty fail marker is created.
thumbnailify_generate_thumbnail_exec(p) ==
    /\ call[p].pc = "old_exec"
    /\ LET thumb_path == get_thumbnail_hash_output(call[p].hash, call[p].sizes[1])
           fail_marker == get_failed_thumbnail_output(call[p].hash)
       IN \E run \in HelperRuns, renamed \in BOOLEAN :
            /\ temps' = [temps EXCEPT ![p] = Absent]
            /\ CASE run.exit = "spawn_error" ->
                    /\ renamed
                    /\ fs' = fs
                    /\ call' = [call EXCEPT ![p] =
                                  Return(@, FALSE, NoPath, "Io", "spawn_error")]
                 [] run.exit = "zero" /\ renamed ->
                    /\ fs' = [fs EXCEPT ![thumb_path] = run.out]
                    /\ call' = [call EXCEPT ![p] =
                                  Return([@ EXCEPT !.work = TRUE, !.exit = run.exit], TRUE, thumb_path,
                                         "none", "commit")]
                 [] run.exit = "zero" /\ ~renamed ->
                    /\ fs' = fs
                    /\ call' = [call EXCEPT ![p] =
                                  Return([@ EXCEPT !.work = TRUE, !.exit = run.exit], FALSE, NoPath,
                                         "Io", "persist_failed")]
                 [] OTHER ->
                    /\ renamed
                    /\ fs' = [fs EXCEPT ![fail_marker] = Partial]
                    /\ call' = [call EXCEPT ![p] =
                                  Return([@ EXCEPT !.work = TRUE, !.exit = run.exit], FALSE, NoPath,
                                         "Io", "helper_failed")]
    /\ UNCHANGED <<src, touched>>

Next ==
    \/ ModifySource
    \/ \E file \in InputPaths, size \in Sizes, cfg \in Configs :
            generate_thumbnail(1, file, size, cfg)
    \/ \E p \in Procs : generate_thumbnail_exec(p)
    \/ \E p \in Procs : generate_thumbnail_attach(p)
    \/ \E p \in Procs : generate_thumbnail_persist(p)
    \/ \E p \in Procs : generate_thumbnail_fail_create(p)
    \/ \E p \in Procs : generate_thumbnail_fail_write(p)
    \/ \E p \in Procs : generate_thumbnail_fail_meta(p)
    \/ \E p \in Procs : generate_thumbnail_fail_meta_write(p)
    \/ \E input \in InputPaths, sizes \in SizeLists : create_thumbnails(1, input, sizes)
    \/ \E p \in Procs : create_thumbnails_open(p)
    \/ \E p \in Procs : create_thumbnails_write(p)
    \/ \E p \in Procs : create_thumbnails_fail_open(p)
    \/ \E p \in Procs : create_thumbnails_fail_write(p)
    \/ \E file \in InputPaths, size \in Sizes, cfg \in Configs :
            thumbnailify_generate_thumbnail(1, file, size, cfg)
    \/ \E p \in Procs : thumbnailify_generate_thumbnail_exec(p)
    \/ \E p \in Procs : Reap(p)

Spec == Init /\ [][Next]_vars

\* ------------------------------------------------- files found in the cache
\* The cache directories are shared with every other thumbnailer of the
\* desktop, so a call may find any file at a cache path: nothing, something
\* that is no PNG, or a PNG with any selection of the provenance chunks.
OptChunk(k, values) == {<<>>} \cup { <<Chunk(k, t)>> : t \in values }

ArtifactTexts ==
    { u \o m \o z :
        u \in OptChunk("Thumb::URI", {<<"file://" \o CanonPath>>}),
        m \in OptChunk("Thumb::MTime",
                       {to_string(t) : t \in MTimes} \cup {NonNumericText}),
        z \in OptChunk("Thumb::Size",
                       {to_string(l) : l \in Lens} \cup {NonNumericText}) }

Artifacts == {Absent, Partial} \cup { Png("image", t) : t \in ArtifactTexts }

\* Any existing source, any file at the Normal thumbnail path and at the
\* fail-marker path, and one call of any of the three operations.
ArtifactInit ==
    /\ src \in [exists : {TRUE}, mtime : MTimes, len : Lens, kind : SourceKinds]
    /\ \E thumb \in Artifacts, marker \in Artifacts :
          fs = [q \in CachePaths |->
                  IF q[1] = "normal" THEN thumb
                  ELSE IF q[1] = FailDir THEN marker
                  ELSE Absent]
    /\ temps = [p \in Procs |-> Absent]
    /\ call = [p \in Procs |-> IdleCall]
    /\ touched = FALSE

ArtifactNext ==
    \/ \E file \in InputPaths, size \in Sizes, cfg \in Configs :
            generate_thumbnail(1, file, size, cfg)
    \/ \E input \in InputPaths, sizes \in SizeLists : create_thumbnails(1, input, sizes)
    \/ \E file \in InputPaths, size \in Sizes, cfg \in Configs :
            thumbnailify_generate_thumbnail(1, file, size, cfg)

ArtifactSpec == ArtifactInit /\ [][ArtifactNext]_vars

\* ------------------------------------------------ concurrent generate_thumbnail
\* One call of generate_thumbnail (src/src/thumbnailer.rs) per process,
\* overlapping in any way on a source that does not change, starting from a
\* cache that holds nothing or a complete thumbnail made for some state of
\* the source.
ConcInit ==
    /\ src \in [exists : {TRUE}, mtime : MTimes, len : {0}, kind : {"good"}]
    /\ \E old \in {Absent} \cup
                  { Png("image",
                        add_thumbnail_metadata_texts(<<>>, get_file_uri(CanonPath, s), s)) :
                      s \in [exists : {TRUE}, mtime : MTimes, len : {0}, kind : {"good"}] } :
          fs = [q \in CachePaths |->
                  IF q = get_thumbnail_hash_output(
                             compute_hash("file://" \o CanonPath), "normal")
                  THEN old ELSE Absent]
    /\ temps = [p \in Procs |-> Absent]
    /\ call = [p \in Procs |-> IdleCall]
    /\ touched = FALSE

ConcNext ==
    \/ \E p \in Procs, size \in Sizes, cfg \in Configs :
            generate_thumbnail_enter(p, CanonPath, size, cfg)
    \/ \E p \in Procs : generate_thumbnail_exec(p)
    \/ \E p \in Procs : generate_thumbnail_attach(p)
    \/ \E p \in Procs : generate_thumbnail_persist(p)
    \/ \E p \in Procs : generate_thumbnail_fail_create(p)
    \/ \E p \in Procs : generate_thumbnail_fail_write(p)
    \/ \E p \in Procs : generate_thumbnail_fail_meta(p)
    \/ \E p \in Procs : generate_thumbnail_fail_meta_write(p)

ConcSpec == ConcInit /\ [][ConcNext]_vars

\* ------------------------------------------------ cache paths of a source
\* The derivation every entry point starts with (generate_thumbnail lines
\* 246-262, create_thumbnails lines 122-125): the source's URI, its hash, and
\* the fail-marker and thumbnail paths made from the hash. Each process does
\* it for one spelling of the source's path and one size.
AliasPaths == InputPaths \cup {LinkPath}

cache_paths(p, input, size) ==
    /\ call[p].pc = "idle"
    /\ LET uri == get_file_uri(input, src)
           hash == compute_hash(uri)
       IN call' = [call EXCEPT ![p] =
            IF uri = "err"
            THEN [ pc |-> "done", op |-> "cache_paths", input |-> input, size |-> size,
                   ok |-> FALSE, uri |-> "none", hash |-> "none",
                   fail_path |-> NoPath, thumb_path |-> NoPath ]
            ELSE [ pc |-> "done", op |-> "cache_paths", input |-> input, size |-> size,
                   ok |-> TRUE, uri |-> uri, hash |-> hash,
                   fail_path |-> get_failed_thumbnail_output(hash),
                   thumb_path |-> get_thumbnail_hash_output(hash, size) ] ]
    /\ UNCHANGED <<src, fs, temps, touched>>

PathsInit ==
    /\ src \in Sources
    /\ fs = [q \in CachePaths |-> Absent]
    /\ temps = [p \in Procs |-> Absent]
    /\ call = [p \in Procs |-> IdleCall]
    /\ touched = FALSE

PathsNext ==
    \E p \in Procs, input \in AliasPaths, size \in Sizes : cache_paths(p, input, size)

PathsSpec == PathsInit /\ [][PathsNext]_vars

\* ------------------------------------------------------- find_thumbnailer
\* A .thumbnailer file, for the MIME type looked up: a descriptor that lists
\* the type and has Exec, one for other types, a file Ini::load_from_file
\* rejects, and a descriptor that lists the type and has no Exec.
DescriptorKinds == {"match", "other", "unparseable", "match_no_exec"}

FileLists == UNION { [1..n -> DescriptorKinds] : n \in 0..MaxFiles }

\* A thumbnailers directory: missing, or its descriptor files in read_dir order.
NoDir == [exists |-> FALSE, files |-> <<>>]
Dirs == {NoDir} \cup { [exists |-> TRUE, files |-> f] : f \in FileLists }

\* The environment of a lookup: HOME (set or not) with its thumbnailers
\* directory, the directories of the XDG_DATA_DIRS entries in declared
\* order, and /usr/share/thumbnailers.
Envs ==
    { [home_set |-> TRUE, home |-> h, xdg |-> x, usr |-> u] :
        h \in Dirs, x \in UNION { [1..n -> Dirs] : n \in 0..MaxXdgDirs }, u \in Dirs }
    \cup
    { [home_set |-> FALSE, home |-> NoDir, xdg |-> x, usr |-> u] :
        x \in UNION { [1..n -> Dirs] : n \in 0..MaxXdgDirs }, u \in Dirs }

XdgNames == <<"xdg1", "xdg2", "xdg3", "xdg4">>

\* Lines 125-143 of src/src/thumbnailer.rs: the directories in search order.
search_dirs(env) ==
    (IF env.home_set THEN << [name |-> "home", dir |-> env.home] >> ELSE << >>)
    \o [i \in 1..Len(env.xdg) |-> [name |-> XdgNames[i], dir |-> env.xdg[i]]]
    \o << [name |-> "usr", dir |-> env.usr] >>

\* Lines 31-38 of src/thumbnailify/src/thumbnailer.rs: HOME, then /usr/share.
thumbnailify_search_dirs(env) ==
    (IF env.home_set THEN << [name |-> "home", dir |-> env.home] >> ELSE << >>)
    \o << [name |-> "usr", dir |-> env.usr] >>

NoneFound == [tag |-> "none", dir |-> "none", index |-> 0, err |-> "none"]
Found(name, i) == [tag |-> "found", dir |-> name, index |-> i, err |-> "none"]
LookupError(name, i, err) == [tag |-> "error", dir |-> name, index |-> i, err |-> err]

RECURSIVE scan_files(_, _, _)
\* Lines 147-180: the entries of one directory, from the i-th on. A file that
\* does not load and a matching descriptor without Exec end the lookup with
\* an error (the ? operator).
scan_files(name, files, i) ==
    IF i > Len(files) THEN NoneFound
    ELSE IF files[i] = "unparseable" THEN LookupError(name, i, "Ini")
    ELSE IF files[i] = "match" THEN Found(name, i)
    ELSE IF files[i] = "match_no_exec" THEN LookupError(name, i, "Io")
    ELSE scan_files(name, files, i + 1)

RECURSIVE scan_dirs(_)
\* Lines 145-185: the directories in order; one that is no directory is
\* skipped; the first result that is not "none" is returned.
scan_dirs(dirs) ==
    IF dirs = << >> THEN NoneFound
    ELSE LET here == IF Head(dirs).dir.exists
                     THEN scan_files(Head(dirs).name, Head(dirs).dir.files, 1)
                     ELSE NoneFound
         IN IF here.tag # "none" THEN here ELSE scan_dirs(Tail(dirs))

find_thumbnailer(env) == scan_dirs(search_dirs(env))

thumbnailify_find_thumbnailer(env) == scan_dirs(thumbnailify_search_dirs(env))

\* One lookup by generate_thumbnail of src/src/thumbnailer.rs (line 280).
find_thumbnailer_call(p, env) ==
    /\ call[p].pc = "idle"
    /\ call' = [call EXCEPT ![p] =
                  [ pc |-> "done", op |-> "find_thumbnailer", env |-> env,
                    dirs |-> search_dirs(env), result |-> find_thumbnailer(env) ]]
    /\ UNCHANGED <<src, fs, temps, touched>>

\* One lookup by generate_thumbnail of src/thumbnailify/src/thumbnailer.rs.
thumbnailify_find_thumbnailer_call(p, env) ==
    /\ call[p].pc = "idle"
    /\ call' = [call EXCEPT ![p] =
                  [ pc |-> "done", op |-> "thumbnailify_find_thumbnailer", env |-> env,
                    dirs |-> thumbnailify_search_dirs(env),
                    result |-> thumbnailify_find_thumbnailer(env) ]]
    /\ UNCHANGED <<src, fs, temps, touched>>

LookupNext ==
    \/ \E env \in Envs : find_thumbnailer_call(1, env)
    \/ \E env \in Envs : thumbnailify_find_thumbnailer_call(1, env)

LookupSpec == Init /\ [][LookupNext]_vars

\* ----------------------------------------------------- build_command_args
\* Exec lines: texts of the characters that matter to the templater and to
\* the word splitter.
ExecChars == {"%", "s", "u", "i", "o", " ", "'"}
ExecLines == UNION { [1..n -> ExecChars] : n \in 0..MaxExecLen }

\* The values substituted: the size in pixels, the file URI (percent-encoded,
\* so without any of the tokens), the temp file's path, and the source's
\* canonical path, whose last component may hold any character a file name may.
SizeText == <<"1", "2", "8">>
UriText == <<"U">>
OutputText == <<"O">>
InputTexts == { <<"/", "p">>, <<"/", "%", "o">>, <<"/", "p", " ", "q">> }

RECURSIVE file_name(_)
\* Path::file_name: what follows the last separator.
file_name(path) ==
    IF path = << >> THEN << >>
    ELSE IF path[Len(path)] = "/" THEN << >>
    ELSE Append(file_name(SubSeq(path, 1, Len(path) - 1)), path[Len(path)])

RECURSIVE replace(_, _, _)
\* str::replace: every non-overlapping occurrence of pat, from the left.
replace(t, pat, by) ==
    IF Len(t) < Len(pat) THEN t
    ELSE IF SubSeq(t, 1, Len(pat)) = pat
         THEN by \o replace(SubSeq(t, Len(pat) + 1, Len(t)), pat, by)
         ELSE <<t[1]>> \o replace(Tail(t), pat, by)

\* Lines 216-222: the five replace calls, each over the result of the one before.
substitute(token, input) ==
    replace(replace(replace(replace(replace(token,
        <<"%", "%">>, <<"%">>),
        <<"%", "s">>, SizeText),
        <<"%", "u">>, UriText),
        <<"%", "i">>, input),
        <<"%", "o">>, OutputText)

RECURSIVE split_from(_, _, _, _, _)
\* shell_words::split from the i-th character on: mode is "delimiter",
\* "unquoted" or "single"; word is the word being read, words those read.
split_from(t, i, mode, word, words) ==
    IF i > Len(t)
    THEN IF mode = "single" THEN [ok |-> FALSE, words |-> << >>]
         ELSE IF mode = "unquoted" THEN [ok |-> TRUE, words |-> Append(words, word)]
         ELSE [ok |-> TRUE, words |-> words]
    ELSE IF mode = "single"
         THEN IF t[i] = "'" THEN split_from(t, i + 1, "unquoted", word, words)
              ELSE split_from(t, i + 1, "single", Append(word, t[i]), words)
    ELSE IF t[i] = "'" THEN split_from(t, i + 1, "single", word, words)
    ELSE IF t[i] = " "
         THEN IF mode = "unquoted"
              THEN split_from(t, i + 1, "delimiter", << >>, Append(words, word))
              ELSE split_from(t, i + 1, "delimiter", << >>, words)
    ELSE split_from(t, i + 1, "unquoted", Append(word, t[i]), words)

\* shell_words::split(exec_line): the words, or an error on an open quote.
split(t) == split_from(t, 1, "delimiter", << >>, << >>)

RECURSIVE split_whitespace_from(_, _, _, _)
split_whitespace_from(t, i, word, words) ==
    IF i > Len(t) THEN (IF word = << >> THEN words ELSE Append(words, word))
    ELSE IF t[i] = " "
         THEN split_whitespace_from(t, i + 1, << >>,
                                    IF word = << >> THEN words ELSE Append(words, word))
    ELSE split_whitespace_from(t, i + 1, Append(word, t[i]), words)

\* str::split_whitespace: the maximal runs of characters that are no whitespace.
split_whitespace(t) == split_whitespace_from(t, 1, << >>, << >>)

\* build_command_args of src/src/thumbnailer.rs: the Exec line is split into
\* shell words and each word goes through the substitutions.
build_command_args(exec_line, input) ==
    LET tokens == split(exec_line)
    IN IF ~tokens.ok
       THEN [ok |-> FALSE, tokens |-> << >>, input_str |-> input, args |-> << >>]
       ELSE [ ok |-> TRUE, tokens |-> tokens.words, input_str |-> input,
              args |-> [k \in 1..Len(tokens.words) |-> substitute(tokens.words[k], input)] ]

\* build_command_args of src/thumbnailify/src/thumbnailer.rs: the Exec line
\* is split at whitespace, and %i stands for the source's file name.
thumbnailify_build_command_args(exec_line, input) ==
    LET tokens == split_whitespace(exec_line)
    IN [ ok |-> TRUE, tokens |-> tokens, input_str |-> file_name(input),
         args |-> [k \in 1..Len(tokens) |-> substitute(tokens[k], file_name(input))] ]

\* One call by generate_thumbnail (line 325).
build_command_args_call(p, exec_line, input) ==
    /\ call[p].pc = "idle"
    /\ call' = [call EXCEPT ![p] =
                  [ pc |-> "done", op |-> "build_command_args",
                    exec_line |-> exec_line, input |-> input,
                    result |-> build_command_args(exec_line, input) ]]
    /\ UNCHANGED <<src, fs, temps, touched>>

thumbnailify_build_command_args_call(p, exec_line, input) ==
    /\ call[p].pc = "idle"
    /\ call' = [call EXCEPT ![p] =
                  [ pc |-> "done", op |-> "thumbnailify_build_command_args",
                    exec_line |-> exec_line, input |-> input,
                    result |-> thumbnailify_build_command_args(exec_line, input) ]]
    /\ UNCHANGED <<src, fs, temps, touched>>

TemplateNext ==
    \/ \E exec_line \in ExecLines, input \in InputTexts :
            build_command_args_call(1, exec_line, input)
    \/ \E exec_line \in ExecLines, input \in InputTexts :
            thumbnailify_build_command_args_call(1, exec_line, input)

TemplateSpec == Init /\ [][TemplateNext]_vars

\* ------------------------------------------------- the helper's command
\* Paths the sandbox is given: the thumbnail directory and the system
\* directories bound read-only.
ThumbDirText == <<"T">>
SystemBinds == { <<"/", "u", "s", "r">>, <<"/", "e", "t", "c">>, <<"/", "b", "i", "n">> }

\* The Command that is run: under bwrap, its writable and read-only binds
\* and the argv after "--"; without it, the argv alone.
NoCommand ==
    [ok |-> FALSE, sandbox |-> FALSE, rw_binds |-> {}, ro_binds |-> {}, argv |-> << >>]

\* Lines 337-385 of src/src/thumbnailer.rs: which("bwrap") decides how the
\* executable and its arguments are run.
command_for(args, file_str, bwrap) ==
    IF args = << >> THEN NoCommand
    ELSE IF bwrap
         THEN [ ok |-> TRUE, sandbox |-> TRUE,
                rw_binds |-> {ThumbDirText},
                ro_binds |-> SystemBinds \cup {file_str},
                argv |-> args ]
         ELSE [ ok |-> TRUE, sandbox |-> FALSE, rw_binds |-> {}, ro_binds |-> {},
                argv |-> args ]

\* Lines 181-184 of src/thumbnailify/src/thumbnailer.rs: the executable is
\* run as it is.
thumbnailify_command_for(args, file_str, bwrap) ==
    IF args = << >> THEN NoCommand
    ELSE [ ok |-> TRUE, sandbox |-> FALSE, rw_binds |-> {}, ro_binds |-> {},
           argv |-> args ]

\* What the exit status leads to: lines 387-414.
after_status(exit) == IF exit = "zero" THEN "commit" ELSE "fail_marker"

\* Lines 323-393 of generate_thumbnail: the arguments are built from the
\* descriptor's Exec line, the command is run with or without bwrap, and
\* its exit status is looked at.
generate_thumbnail_command(p, exec_line, input, bwrap, exit) ==
    /\ call[p].pc = "idle"
    /\ LET built == build_command_args(exec_line, input)
           command == IF built.ok THEN command_for(built.args, input, bwrap)
                      ELSE NoCommand
       IN call' = [call EXCEPT ![p] =
            [ pc |-> "done", op |-> "generate_thumbnail_command",
              exec_line |-> exec_line, input |-> input, bwrap |-> bwrap,
              exit |-> IF command.ok THEN exit ELSE "none",
              result |-> built, command |-> command,
              next |-> IF command.ok THEN after_status(exit) ELSE "error" ]]
    /\ UNCHANGED <<src, fs, temps, touched>>

\* Lines 170-201 of src/thumbnailify/src/thumbnailer.rs.
thumbnailify_generate_thumbnail_command(p, exec_line, input, bwrap, exit) ==
    /\ call[p].pc = "idle"
    /\ LET built == thumbnailify_build_command_args(exec_line, input)
           command == thumbnailify_command_for(built.args, input, bwrap)
       IN call' = [call EXCEPT ![p] =
            [ pc |-> "done", op |-> "thumbnailify_generate_thumbnail_command",
              exec_line |-> exec_line, input |-> input, bwrap |-> bwrap,
              exit |-> IF command.ok THEN exit ELSE "none",
              result |-> built, command |-> command,
              next |-> IF command.ok THEN after_status(exit) ELSE "error" ]]
    /\ UNCHANGED <<src, fs, temps, touched>>

SandboxNext ==
    \/ \E exec_line \in ExecLines, input \in InputTexts, bwrap \in BOOLEAN,
          exit \in {"zero", "nonzero"} :
            generate_thumbnail_command(1, exec_line, input, bwrap, exit)
    \/ \E exec_line \in ExecLines, input \in InputTexts, bwrap \in BOOLEAN,
          exit \in {"zero", "nonzero"} :
            thumbnailify_generate_thumbnail_command(1, exec_line, input, bwrap, exit)

SandboxSpec == Init /\ [][SandboxNext]_vars

\* ------------------------------- generate_thumbnail of thumbnail.rs (resize)
\* The target sizes (ThumbnailSize::to_dimension gives a power of two).
TargetDims == {1, 2, 4, 8}
Sides == 0..MaxSide

Max(a, b) == IF a >= b THEN a ELSE b

\* (n / d).round() for n >= 0, d > 0: the nearest integer, halves upwards.
RoundDiv(n, d) == (2 * n + d) \div (2 * d)

\* generate_thumbnail scaling by the smaller side, as its doc comment words it.
thumbnail_generate_thumbnail_by_smallest_side(width, height, max_dimension) ==
    IF width = 0 \/ height = 0
    THEN [ok |-> FALSE, dst_width |-> 0, dst_height |-> 0]
    ELSE LET smallest_side == IF width <= height THEN width ELSE height
         IN [ ok |-> TRUE,
              dst_width |-> RoundDiv(width * max_dimension, smallest_side),
              dst_height |-> RoundDiv(height * max_dimension, smallest_side) ]

\* Lines 71-89 of src/thumbnailify/src/thumbnail.rs: an image without size
\* is rejected; otherwise both sides are scaled by max_dimension over the
\* largest side and rounded.
thumbnail_generate_thumbnail(width, height, max_dimension) ==
    IF width = 0 \/ height = 0
    THEN [ok |-> FALSE, dst_width |-> 0, dst_height |-> 0]
    ELSE LET largest_side == Max(width, height)
         IN [ ok |-> TRUE,
              dst_width |-> RoundDiv(width * max_dimension, largest_side),
              dst_height |-> RoundDiv(height * max_dimension, largest_side) ]

\* One call: the dimensions are computed and the resizer fills the new image
\* (lines 89-99). What the resizer makes of a destination without height or
\* width is left open.
thumbnail_generate_thumbnail_call(p, width, height, max_dimension, resized) ==
    /\ call[p].pc = "idle"
    /\ LET dims == thumbnail_generate_thumbnail(width, height, max_dimension)
       IN /\ (~resized) => (dims.ok /\ (dims.dst_width = 0 \/ dims.dst_height = 0))
          /\ call' = [call EXCEPT ![p] =
                [ pc |-> "done", op |-> "thumbnail_generate_thumbnail",
                  width |-> width, height |-> height, max_dimension |-> max_dimension,
                  dims |-> dims, ok |-> dims.ok /\ resized ]]
    /\ UNCHANGED <<src, fs, temps, touched>>

ResizeNext ==
    \E width \in Sides, height \in Sides, max_dimension \in TargetDims,
       resized \in BOOLEAN :
        thumbnail_generate_thumbnail_call(1, width, height, max_dimension, resized)

ResizeSpec == Init /\ [][ResizeNext]_vars

\* ------------------------------------- the source rewritten during a call
\* Another program rewrites the source while a call is between reading it and
\* recording its provenance: after the helper has run and before
\* add_thumbnail_metadata (src/src/thumbnailer.rs 385-388), or after
\* parse_file and before write_out_thumbnail reads the metadata
\* (src/thumbnailify/src/file.rs 112-125).
ModifySourceDuringCall(p) ==
    /\ call[p].pc \in {"attach", "ct_open", "ct_write"}
    /\ \E s \in Sources :
        /\ s.exists
        /\ s.mtime # src.mtime
        /\ src' = s
    /\ touched' = TRUE
    /\ UNCHANGED <<fs, temps, call>>

RaceNext ==
    \/ \E file \in InputPaths, size \in Sizes, cfg \in Configs :
            generate_thumbnail(1, file, size, cfg)
    \/ \E p \in Procs : generate_thumbnail_exec(p)
    \/ \E p \in Procs : ModifySourceDuringCall(p)
    \/ \E p \in Procs : generate_thumbnail_attach(p)
    \/ \E p \in Procs : generate_thumbnail_persist(p)
    \/ \E p \in Procs : generate_thumbnail_fail_create(p)
    \/ \E p \in Procs : generate_thumbnail_fail_write(p)
    \/ \E p \in Procs : generate_thumbnail_fail_meta(p)
    \/ \E p \in Procs : generate_thumbnail_fail_meta_write(p)
    \/ \E input \in InputPaths, sizes \in SizeLists : create_thumbnails(1, input, sizes)
    \/ \E p \in Procs : create_thumbnails_open(p)
    \/ \E p \in Procs : create_thumbnails_write(p)
    \/ \E p \in Procs : create_thumbnails_fail_open(p)
    \/ \E p \in Procs : create_thumbnails_fail_write(p)
    \/ \E p \in Procs : Reap(p)

RaceSpec == Init /\ [][RaceNext]_vars

\* ------------------------------------------------------------- properties
\* A call has just returned to its caller.
Done(p) == call[p].pc = "done"

\* The file a finished call's i-th requested size is cached in.
ThumbOf(p, i) == get_thumbnail_hash_output(call[p].hash, call[p].sizes[i])
FailOf(p) == get_failed_thumbnail_output(call[p].hash)

\* A file is there and is up to date for the source.
Fresh(f) == f.kind # "absent" /\ is_thumbnail_up_to_date(f, src)

HitOutcomes == {"hit_pos", "hit_neg"}

\* C1: whenever a generation call returns success, a file exists at the cache
\* path of every requested size and that file is up to date for the source.
C1_SuccessLeavesFreshThumbnail ==
    \A p \in Procs :
        (Done(p) /\ call[p].ok) =>
            \A i \in 1..Len(call[p].sizes) : Fresh(fs[ThumbOf(p, i)])

\* C2: a final thumbnail path only ever changes by the rename of a finished
\* temp file onto it; no step writes a final path in place.
C2_FinalPathOnlyByRename ==
    [][ \A q \in Sizes \X Hashes :
          fs'[q] # fs[q] =>
              \E p \in Procs : /\ temps[p].kind # "absent"
                                /\ fs'[q] = temps[p]
                                /\ temps'[p] = Absent ]_vars

\* The call found, when it started, a fail marker up to date for the source.
StartedOnFreshFailMarker(p) ==
    /\ Done(p)
    /\ call[p].op \in {"generate_thumbnail", "create_thumbnails"}
    /\ call[p].hash # "none"
    /\ call[p].pre[FailOf(p)].kind # "absent"
    /\ is_thumbnail_up_to_date(call[p].pre[FailOf(p)], src)

RepeatOutcomes(p) ==
    IF call[p].op = "generate_thumbnail"
    THEN { generate_thumbnail_check(call[p].file, call[p].sizes[1], cfg).outcome :
             cfg \in Configs }
    ELSE { create_thumbnails_check(call[p].file, call[p].sizes) }

\* C4: after a call has returned success, the same call made again with the
\* source unchanged is a cache hit: it stops at a freshness check, so it runs
\* no decoder, resizer or helper, makes no temp file and rewrites nothing.
C4_SecondCallIsCacheHit ==
    \A p \in Procs :
        ( /\ Done(p)
          /\ call[p].ok
          /\ call[p].op \in {"generate_thumbnail", "create_thumbnails"} )
        => RepeatOutcomes(p) \subseteq HitOutcomes

\* The call is the first one after the source's mtime changed, and it found a
\* thumbnail that the change had made out of date.
StartedOnOutdatedThumbnail(p) ==
    /\ Done(p)
    /\ call[p].op = "generate_thumbnail"
    /\ call[p].touched
    /\ call[p].hash # "none"
    /\ call[p].pre[ThumbOf(p, 1)].kind # "absent"
    /\ ~is_thumbnail_up_to_date(call[p].pre[ThumbOf(p, 1)], src)

\* C5: the first generate_thumbnail after the source's mtime changed is not
\* answered from the cache, and when it returns success the thumbnail's
\* Thumb::MTime is the decimal text of the new mtime.
C5_ChangedMTimeRegenerates ==
    \A p \in Procs :
        StartedOnOutdatedThumbnail(p) =>
            /\ call[p].outcome \notin HitOutcomes
            /\ call[p].ok =>
                  /\ fs[ThumbOf(p, 1)].kind = "png"
                  /\ HasText(fs[ThumbOf(p, 1)].texts, "Thumb::MTime")
                  /\ FindText(fs[ThumbOf(p, 1)].texts, "Thumb::MTime")
                        = to_string(src.mtime)

\* generate_thumbnail ran the helper and the helper exited with a status
\* other than 0.
HelperExitedNonzero(p) ==
    /\ Done(p)
    /\ call[p].op = "generate_thumbnail"
    /\ call[p].exit = "nonzero"

\* C6: when the helper exits nonzero, generate_thumbnail returns an error and
\* leaves a fail marker that is up to date for the source, so that a second
\* call for any size, whatever helper is installed, stops at the fail-marker
\* check and does not run the helper.
C6_HelperFailureIsNegativelyCached ==
    \A p \in Procs :
        HelperExitedNonzero(p) =>
            /\ ~call[p].ok
            /\ call[p].outcome = "helper_failed"
            /\ Fresh(fs[FailOf(p)])
            /\ \A size \in Sizes, cfg \in Configs :
                  generate_thumbnail_check(call[p].file, size, cfg).outcome = "hit_neg"

C6_Witness ==
    \E p \in Procs : /\ HelperExitedNonzero(p)
                      /\ src.mtime = MaxMTime
                      /\ call[p].pre[FailOf(p)].kind = "absent"

\* generate_thumbnail ran the helper, the helper exited with status 0 and
\* what it left in the temp file is no PNG.
HelperOutputRejected(p) ==
    /\ Done(p)
    /\ call[p].op = "generate_thumbnail"
    /\ call[p].exit = "zero"
    /\ call[p].outcome = "attach_failed"

\* C7: when the helper exits 0 but its output is empty or no PNG,
\* generate_thumbnail returns an error, commits nothing to the thumbnail path
\* and leaves a fail marker that is up to date for the source.
C7_InvalidOutputIsNegativelyCached ==
    \A p \in Procs :
        HelperOutputRejected(p) =>
            /\ ~call[p].ok
            /\ fs[ThumbOf(p, 1)] = call[p].pre[ThumbOf(p, 1)]
            /\ Fresh(fs[FailOf(p)])

\* The call was made with no helper registered for the source's MIME type, or
\* with one whose TryExec is not on PATH, and found nothing fresh in the cache.
StartedWithoutUsableHelper(p) ==
    /\ Done(p)
    /\ call[p].op \in {"generate_thumbnail", "thumbnailify_generate_thumbnail"}
    /\ call[p].cfg \in {"none/none", "found/missing"}
    /\ call[p].hash # "none"
    /\ ~is_thumbnail_up_to_date(call[p].pre[ThumbOf(p, 1)], src)
    /\ call[p].op = "generate_thumbnail"
          => ~is_thumbnail_up_to_date(call[p].pre[FailOf(p)], src)

\* C8: a call that finds no helper, or a helper whose TryExec is missing,
\* returns an error and leaves the cache as it was: no fail marker, no
\* thumbnail, no temp file. A later call, made once a usable helper is
\* installed, is not stopped by anything this call left and runs the helper.
C8_NoHelperLeavesCacheUnchanged ==
    \A p \in Procs :
        StartedWithoutUsableHelper(p) =>
            /\ ~call[p].ok
            /\ call[p].outcome \in {"no_helper", "helper_missing"}
            /\ fs = call[p].pre
            /\ temps[p] = Absent
            /\ LET usable == [helper |-> "found", try_exec |-> "none"]
                   size == call[p].sizes[1]
               IN IF call[p].op = "generate_thumbnail"
                  THEN generate_thumbnail_check(call[p].file, size, usable).outcome
                         = "run_helper"
                  ELSE thumbnailify_generate_thumbnail_check(call[p].file, size,
                                                             usable).outcome
                         = "run_helper"

C8_Witness ==
    \E p \in Procs : /\ StartedWithoutUsableHelper(p)
                      /\ call[p].op = "generate_thumbnail"
                      /\ call[p].cfg = "found/missing"
                      /\ fs[ThumbOf(p, 1)].kind = "png"

\* C9: a call for a source that does not exist returns an error and creates
\* nothing in the cache: every thumbnail and fail-marker path holds what it
\* held before the call, so no new file, not even an empty or partial one.
C9_MissingSourceCreatesNothing ==
    \A p \in Procs :
        (Done(p) /\ ~src.exists) => (~call[p].ok /\ fs = call[p].pre)

\* The source exists and is undecodable, and the call got as far as finding
\* that out: create_thumbnails tried to decode it, or the helper that
\* generate_thumbnail ran on it exited nonzero.
BrokenSourceDetected(p) ==
    /\ Done(p)
    /\ src.exists
    /\ src.kind = "undecodable"
    /\ \/ call[p].op = "create_thumbnails" /\ call[p].work
       \/ call[p].op = "generate_thumbnail" /\ call[p].exit = "nonzero"

C11_FreshFailMarkerNotRewritten ==
    [][ \A p \in Procs :
          ( /\ call[p].pc = "idle"
            /\ call'[p].pc # "idle"
            /\ call'[p].op \in {"generate_thumbnail", "create_thumbnails"}
            /\ call'[p].hash # "none"
            /\ Fresh(fs[get_failed_thumbnail_output(call'[p].hash)]) )
          => ( /\ call'[p].pc = "done"
               /\ ~call'[p].work
               /\ fs' = fs
               /\ temps' = temps ) ]_vars

C11_Witness ==
    \E p \in Procs : /\ StartedOnFreshFailMarker(p)
                      /\ call[p].op = "create_thumbnails"
                      /\ fs[FailOf(p)] = call[p].pre[FailOf(p)]

\* The call found, when it started, both a fail marker and a thumbnail of the
\* requested size up to date for the source.
StartedOnBothFresh(p) ==
    /\ StartedOnFreshFailMarker(p)
    /\ \A i \in 1..Len(call[p].sizes) :
          /\ call[p].pre[ThumbOf(p, i)].kind # "absent"
          /\ is_thumbnail_up_to_date(call[p].pre[ThumbOf(p, i)], src)

\* C12: when a fresh fail marker and a fresh thumbnail both exist, the request
\* ends at the fail-marker check: its result is the negative one (from
\* generate_thumbnail the fail marker's path) and the thumbnail's path is not
\* returned.
C12_FailMarkerCheckedFirst ==
    \A p \in Procs :
        StartedOnBothFresh(p) =>
            /\ call[p].outcome = "hit_neg"
            /\ call[p].path # ThumbOf(p, 1)
            /\ call[p].op = "generate_thumbnail" => call[p].path = FailOf(p)

C12_Witness ==
    \E p \in Procs : /\ StartedOnBothFresh(p)
                      /\ call[p].op = "generate_thumbnail"

\* The call found, when it started, a fail marker whose Thumb::MTime or
\* Thumb::Size does not match the source.
StartedOnStaleFailMarker(p) ==
    /\ Done(p)
    /\ call[p].op = "generate_thumbnail"
    /\ call[p].hash # "none"
    /\ src.exists
    /\ call[p].pre[FailOf(p)].kind = "png"
    /\ LET texts == call[p].pre[FailOf(p)].texts
       IN \/ /\ HasText(texts, "Thumb::MTime")
             /\ parse_u64_or_0(FindText(texts, "Thumb::MTime")) # src.mtime
          \/ /\ HasText(texts, "Thumb::Size")
             /\ parse_u64_or_0(FindText(texts, "Thumb::Size")) # src.len

C14_TempReleasedOnEveryReturn ==
    \A p \in Procs :
        ( /\ Done(p)
          /\ call[p].op \in {"generate_thumbnail", "thumbnailify_generate_thumbnail"} )
        => temps[p] = Absent

\* C15: when the rename of the temp file onto the thumbnail path fails,
\* generate_thumbnail returns the persist (commit) error, the file at the
\* thumbnail path is what it was before the call, and the temp file no
\* longer exists when the call returns.
C15_FailedRenameLeavesNoTemp ==
    \A p \in Procs :
        ( /\ Done(p)
          /\ call[p].op = "generate_thumbnail"
          /\ call[p].outcome = "persist_failed" )
        => /\ ~call[p].ok
           /\ call[p].err = "Persist"
           /\ fs[ThumbOf(p, 1)] = call[p].pre[ThumbOf(p, 1)]
           /\ temps[p] = Absent

\* A file is a complete PNG carrying the three provenance chunks.
HasProvenance(f) ==
    /\ f.kind = "png"
    /\ HasText(f.texts, "Thumb::URI")
    /\ HasText(f.texts, "Thumb::MTime")
    /\ HasText(f.texts, "Thumb::Size")

\* Two calls of generate_thumbnail for the same size overlapped (each started
\* on the thumbnail the other started on), both ran the helper and both
\* have returned Ok after their rename.
BothCommitted(p, q) ==
    /\ p # q
    /\ Done(p) /\ Done(q)
    /\ call[p].op = "generate_thumbnail" /\ call[q].op = "generate_thumbnail"
    /\ call[p].sizes = call[q].sizes
    /\ call[p].outcome = "commit" /\ call[q].outcome = "commit"
    /\ call[p].pre[ThumbOf(p, 1)] = call[q].pre[ThumbOf(q, 1)]

\* C16: with generate_thumbnail calls overlapping in any way, every thumbnail
\* path holds at every moment nothing or a complete PNG with provenance (each
\* call works in a temp file of its own), and once two overlapping calls for
\* the same size have both returned, the thumbnail is fresh and neither temp
\* file remains.
C16_ConcurrentCallsLeaveFreshThumbnail ==
    /\ \A q \in Sizes \X Hashes : fs[q] = Absent \/ HasProvenance(fs[q])
    /\ \A p \in Procs, q \in Procs :
          BothCommitted(p, q) =>
              /\ Fresh(fs[ThumbOf(p, 1)])
              /\ temps[p] = Absent
              /\ temps[q] = Absent

\* C17: in every reachable state, every file at a final thumbnail path
\* carries the three provenance chunks Thumb::URI, Thumb::MTime and
\* Thumb::Size: nothing reaches a final path before provenance is attached.
C17_FinalFilesCarryProvenance ==
    \A q \in Sizes \X Hashes : fs[q].kind # "absent" => HasProvenance(fs[q])

\* The call returned success without generating anything: a cache hit.
CacheHit(p) == Done(p) /\ call[p].ok /\ ~call[p].work

\* Every cache file a hit rests on satisfies ok: the file whose path is
\* returned, or for create_thumbnails (which returns no path) the fail marker
\* or else the thumbnail of every requested size.
HitRestsOn(p, ok(_)) ==
    IF call[p].path # NoPath THEN ok(call[p].pre[call[p].path])
    ELSE \/ ok(call[p].pre[FailOf(p)])
         \/ \A i \in 1..Len(call[p].sizes) : ok(call[p].pre[ThumbOf(p, i)])

HasMTime(f) == f.kind = "png" /\ HasText(f.texts, "Thumb::MTime")

\* C18 as stated: a file that lacks one of Thumb::URI, Thumb::MTime and
\* Thumb::Size is never what a positive or negative cache hit rests on.
C18_HitNeedsAllThreeChunks ==
    \A p \in Procs : CacheHit(p) => HitRestsOn(p, HasProvenance)

\* C18: a file that is no PNG or lacks Thumb::MTime is never what a cache hit
\* rests on; Thumb::URI is not looked at and Thumb::Size only when present,
\* so a PNG whose only chunk is a Thumb::MTime equal to the source's mtime is
\* returned by generate_thumbnail as a hit.
C18_HitNeedsMTimeOnly ==
    \A p \in Procs :
        /\ CacheHit(p) => HitRestsOn(p, HasMTime)
        /\ ( /\ Done(p)
             /\ call[p].op = "generate_thumbnail"
             /\ call[p].hash # "none"
             /\ ~is_thumbnail_up_to_date(call[p].pre[FailOf(p)], src)
             /\ call[p].pre[ThumbOf(p, 1)] =
                   Png("image", <<Chunk("Thumb::MTime", to_string(src.mtime))>>) )
           => (CacheHit(p) /\ call[p].path = ThumbOf(p, 1))

C18_Witness ==
    \E p \in Procs :
        /\ CacheHit(p)
        /\ call[p].path = ThumbOf(p, 1)
        /\ src.mtime = MaxMTime
        /\ fs[ThumbOf(p, 1)] = Png("image", <<Chunk("Thumb::MTime", to_string(src.mtime))>>)

\* C19: whenever a call has written the fail marker, on whichever failure
\* path, the marker it leaves is the 1x1 transparent PNG carrying the
\* source's Thumb::URI, Thumb::MTime and Thumb::Size.
C19_FailMarkerIsBlankWithProvenance ==
    \A p \in Procs :
        ( /\ Done(p)
          /\ call[p].hash # "none"
          /\ fs[FailOf(p)] # call[p].pre[FailOf(p)] )
        => /\ HasProvenance(fs[FailOf(p)])
           /\ fs[FailOf(p)].pix = "blank1x1"
           /\ FindText(fs[FailOf(p)].texts, "Thumb::URI")
                 = <<get_file_uri(call[p].file, src)>>
           /\ FindText(fs[FailOf(p)].texts, "Thumb::MTime") = to_string(src.mtime)
           /\ FindText(fs[FailOf(p)].texts, "Thumb::Size") = to_string(src.len)

\* The file at path f holds the provenance write_out_thumbnail is documented to
\* embed for the source: its URI, its mtime in seconds and its length.
RoundTrips(f, uri) ==
    /\ f.kind = "png"
    /\ HasText(f.texts, "Thumb::URI")
    /\ FindText(f.texts, "Thumb::URI") = <<uri>>
    /\ HasText(f.texts, "Thumb::MTime")
    /\ parse_u64_or_0(FindText(f.texts, "Thumb::MTime")) = src.mtime
    /\ HasText(f.texts, "Thumb::Size")
    /\ parse_u64_or_0(FindText(f.texts, "Thumb::Size")) = src.len

\* C20: every step in which write_out_thumbnail writes a file for a source,
\* whether called for a thumbnail or (through write_failed_thumbnail) for a
\* fail marker, leaves a file whose Thumb::URI is the source's canonical URI,
\* whose Thumb::MTime is its mtime in seconds and whose Thumb::Size is its
\* length.
C20_WriteOutThumbnailRoundTrips ==
    [][ \A p \in Procs :
          /\ ( call[p].pc = "fail_write" /\ call'[p].pc = "fail_meta" )
             => RoundTrips(fs'[get_failed_thumbnail_output(call[p].hash)],
                           get_file_uri(call[p].file, src))
          /\ ( call[p].pc = "ct_write" /\ src.exists )
             => RoundTrips(fs'[get_thumbnail_hash_output(call[p].hash,
                                                         Head(call[p].todo))],
                           get_file_uri(call[p].file, src))
      ]_vars

\* A create_thumbnails call that got past get_file_uri has returned.
BatchDone(p) ==
    /\ Done(p)
    /\ call[p].op = "create_thumbnails"
    /\ call[p].hash # "none"

Requested(p, size) == \E i \in 1..Len(call[p].sizes) : call[p].sizes[i] = size

\* The batch call wrote no thumbnail but those of requested sizes that were
\* missing or out of date when it started.
BatchWritesOnlyStale(p) ==
    \A size \in Sizes :
        LET output_path == get_thumbnail_hash_output(call[p].hash, size)
        IN fs[output_path] # call[p].pre[output_path]
              => (Requested(p, size) /\ ~Fresh(call[p].pre[output_path]))

\* C21: a batch call writes only the requested sizes whose thumbnail was
\* missing or out of date, leaves every thumbnail that was fresh as it was,
\* and when it returns success every requested size has a fresh thumbnail.
C21_BatchWritesStaleSizesOnly ==
    \A p \in Procs :
        BatchDone(p) =>
            /\ BatchWritesOnlyStale(p)
            /\ call[p].ok =>
                  \A i \in 1..Len(call[p].sizes) : Fresh(fs[ThumbOf(p, i)])

\* The batch call decoded the source and the resizer rejected the image for
\* a requested size.
ResizeFailed(p) == BatchDone(p) /\ call[p].img = "unresizable"

\* C22: when resizing fails for a requested size, the batch call writes the
\* fail marker and returns an error; it never returns success for a request
\* in which a requested size could not be produced.
C22_ResizeFailureIsAnError ==
    \A p \in Procs :
        ResizeFailed(p) => (~call[p].ok /\ Fresh(fs[FailOf(p)]))

\* C23: no step of any call removes a file from a thumbnail path or from a
\* fail-marker path: a path that holds a file holds a file after the step
\* (the same one, a truncated one or a newer one), and the step that commits
\* a regenerated thumbnail leaves the fail marker exactly as it was.
C23_FinalArtifactsNeverDeleted ==
    [][ /\ \A q \in CachePaths : fs[q].kind # "absent" => fs'[q].kind # "absent"
        /\ \A p \in Procs :
              ( /\ call[p].pc \in {"persist", "old_exec", "ct_write"}
                /\ call'[p].pc = "done"
                /\ call'[p].ok )
              => fs'[get_failed_thumbnail_output(call[p].hash)]
                    = fs[get_failed_thumbnail_output(call[p].hash)]
      ]_vars

\* A regeneration replaced an out-of-date thumbnail while an out-of-date fail
\* marker was there, and the marker is still what it was.
C23_Witness ==
    \E p \in Procs :
        /\ Done(p)
        /\ call[p].outcome = "commit"
        /\ call[p].pre[ThumbOf(p, 1)].kind = "png"
        /\ fs[ThumbOf(p, 1)] # call[p].pre[ThumbOf(p, 1)]
        /\ call[p].pre[FailOf(p)].kind = "png"
        /\ ~Fresh(call[p].pre[FailOf(p)])
        /\ fs[FailOf(p)] = call[p].pre[FailOf(p)]

\* Two derivations were made for spellings that canonicalize to the same
\* absolute path: the source exists, so each spelling resolves to it.
SameCanonicalPath(p, q) ==
    /\ p # q
    /\ Done(p) /\ Done(q)
    /\ call[p].op = "cache_paths" /\ call[q].op = "cache_paths"
    /\ src.exists

\* C24: two spellings of a source's path that canonicalize to the same
\* absolute path give the same file URI and the same hash, hence the same
\* fail-marker path and, for the same size, the same thumbnail path.
C24_SameCanonicalPathSameFingerprint ==
    \A p \in Procs, q \in Procs :
        SameCanonicalPath(p, q) =>
            /\ call[p].ok /\ call[q].ok
            /\ call[p].uri = call[q].uri
            /\ call[p].hash = call[q].hash
            /\ call[p].fail_path = call[q].fail_path
            /\ call[p].size = call[q].size => call[p].thumb_path = call[q].thumb_path

C24_Witness ==
    \E p \in Procs, q \in Procs :
        /\ SameCanonicalPath(p, q)
        /\ call[p].input = CanonPath
        /\ call[q].input = LinkPath
        /\ call[p].size = call[q].size
        /\ call[p].thumb_path = call[q].thumb_path
        /\ call[p].thumb_path # NoPath

\* A text is an unsigned decimal number.
IsNumeral(t) == t # <<>> /\ \A i \in 1..Len(t) : IsDigit(t[i])

\* The first chunk with keyword k is there and is the number n.
ChunkIs(texts, k, n) ==
    /\ HasText(texts, k)
    /\ IsNumeral(FindText(texts, k))
    /\ DigitsValue(FindText(texts, k)) = n

\* The file is a PNG whose Thumb::MTime chunk is the source's mtime and whose
\* Thumb::Size chunk, if it has one, is the source's length.
WitnessesMatch(f) ==
    /\ f.kind = "png"
    /\ src.exists
    /\ ChunkIs(f.texts, "Thumb::MTime", src.mtime)
    /\ HasText(f.texts, "Thumb::Size") => ChunkIs(f.texts, "Thumb::Size", src.len)

\* generate_thumbnail has returned after asking the freshness rule about the
\* fail marker it found (and, when that was not fresh, about the thumbnail).
AskedFreshness(p) ==
    /\ Done(p)
    /\ call[p].op = "generate_thumbnail"
    /\ call[p].hash # "none"

\* C25: the freshness rule answers true for a cache file exactly when the
\* file is a PNG whose Thumb::MTime chunk is the source's mtime in seconds
\* and whose Thumb::Size chunk, if it has one, is the source's length (with
\* no Thumb::Size chunk the mtime alone decides): generate_thumbnail stops at
\* the fail marker exactly when the marker is such a file, and otherwise at
\* the thumbnail exactly when the thumbnail is.
C25_FreshExactlyWhenWitnessesMatch ==
    \A p \in Procs :
        AskedFreshness(p) =>
            /\ call[p].outcome = "hit_neg" <=> WitnessesMatch(call[p].pre[FailOf(p)])
            /\ call[p].outcome = "hit_pos" <=>
                  /\ ~WitnessesMatch(call[p].pre[FailOf(p)])
                  /\ WitnessesMatch(call[p].pre[ThumbOf(p, 1)])

\* The file has a Thumb::MTime text that is no unsigned number, or a
\* Thumb::Size text that is not the source's length.
UnparseableOrWrongSize(f) ==
    /\ f.kind = "png"
    /\ \/ /\ HasText(f.texts, "Thumb::MTime")
          /\ ~IsNumeral(FindText(f.texts, "Thumb::MTime"))
       \/ /\ HasText(f.texts, "Thumb::Size")
          /\ ~ChunkIs(f.texts, "Thumb::Size", src.len)

\* C26: the freshness rule answers false for every cache file whose
\* Thumb::MTime text is no unsigned number, whatever the source's mtime, and
\* for every cache file with a Thumb::Size text that is not the source's
\* length, an unparseable one against an empty source included: no call is
\* answered from such a file.
C26_UnparseableWitnessIsStale ==
    \A p \in Procs :
        AskedFreshness(p) =>
            /\ UnparseableOrWrongSize(call[p].pre[FailOf(p)])
                  => call[p].outcome # "hit_neg"
            /\ UnparseableOrWrongSize(call[p].pre[ThumbOf(p, 1)])
                  => call[p].outcome # "hit_pos"

\* A lookup has returned.
LookedUp(p) ==
    Done(p) /\ call[p].op \in {"find_thumbnailer", "thumbnailify_find_thumbnailer"}

\* No descriptor file of the environment is malformed.
AllWellFormed(env) ==
    \A d \in {env.home, env.usr} \cup {env.xdg[i] : i \in 1..Len(env.xdg)} :
        \A i \in 1..Len(d.files) : d.files[i] \in {"match", "other"}

RECURSIVE scan_files_skipping_malformed(_, _, _)
\* The scan of one directory with malformed descriptors passed over.
scan_files_skipping_malformed(name, files, i) ==
    IF i > Len(files) THEN NoneFound
    ELSE IF files[i] = "match" THEN Found(name, i)
    ELSE scan_files_skipping_malformed(name, files, i + 1)

\* The first matching descriptor in the order HOME, each XDG_DATA_DIRS entry
\* as declared, /usr/share.
RECURSIVE FirstMatch(_)
FirstMatch(dirs) ==
    IF dirs = << >> THEN NoneFound
    ELSE LET here == IF Head(dirs).dir.exists
                     THEN scan_files_skipping_malformed(Head(dirs).name,
                                                        Head(dirs).dir.files, 1)
                     ELSE NoneFound
         IN IF here.tag # "none" THEN here ELSE FirstMatch(Tail(dirs))

\* C27: a lookup among well-formed descriptors returns the first matching
\* descriptor in the order $HOME/.local/share/thumbnailers, the thumbnailers
\* directory of each XDG_DATA_DIRS entry as declared, /usr/share/thumbnailers,
\* missing directories being skipped.
C27_LookupFollowsDirectoryOrder ==
    \A p \in Procs :
        (LookedUp(p) /\ AllWellFormed(call[p].env))
            => call[p].result = FirstMatch(search_dirs(call[p].env))

\* Some directory the lookup searches holds a malformed descriptor.
SomeMalformed(dirs) ==
    \E k \in 1..Len(dirs) :
        /\ dirs[k].dir.exists
        /\ \E i \in 1..Len(dirs[k].dir.files) :
              dirs[k].dir.files[i] \in {"unparseable", "match_no_exec"}

\* C28: a malformed descriptor met during the scan is passed over: when a
\* well-formed descriptor for the MIME type comes anywhere in the searched
\* directories, the lookup returns the first such descriptor; it returns an
\* error only when no well-formed descriptor matches and a malformed one was
\* met.
C28_MalformedDescriptorIsSkipped ==
    \A p \in Procs :
        LookedUp(p) =>
            LET first == FirstMatch(call[p].dirs)
            IN IF first.tag = "found" THEN call[p].result = first
               ELSE IF SomeMalformed(call[p].dirs) THEN call[p].result.tag = "error"
               ELSE call[p].result = NoneFound

\* The command line of a descriptor has been built.
Built(p) ==
    /\ Done(p)
    /\ call[p].op \in {"build_command_args", "thumbnailify_build_command_args"}
    /\ call[p].result.ok

RECURSIVE SinglePass(_, _)
\* One pass over a token from the left: %% gives %, %s the size, %u the URI,
\* %i the source path, %o the output path; what a substitution puts in is not
\* looked at again, and any other character, a % before something else
\* included, is copied.
SinglePass(t, input) ==
    IF t = << >> THEN << >>
    ELSE IF Len(t) >= 2 /\ t[1] = "%" /\ t[2] \in {"%", "s", "u", "i", "o"}
         THEN ( CASE t[2] = "%" -> <<"%">>
                  [] t[2] = "s" -> SizeText
                  [] t[2] = "u" -> UriText
                  [] t[2] = "i" -> input
                  [] OTHER -> OutputText )
              \o SinglePass(SubSeq(t, 3, Len(t)), input)
         ELSE <<t[1]>> \o SinglePass(Tail(t), input)

\* C29: every argument is its Exec token after one pass from the left that
\* substitutes %%, %s, %u, %i and %o: substituted text is never scanned again
\* (%%s gives the literal %s, a source path holding %o is inserted as it is)
\* and other %-sequences are kept.
C29_TemplateIsSinglePass ==
    \A p \in Procs :
        Built(p) =>
            \A k \in 1..Len(call[p].result.tokens) :
                call[p].result.args[k] = SinglePass(call[p].result.tokens[k],
                                                    call[p].result.input_str)

\* C30: the Exec line is split into shell words, quotes honoured, before the
\* substitutions: the arguments are one per shell word, so a quoted word
\* holding whitespace is one argument and a substituted path holding
\* whitespace stays inside its argument.
C30_OneArgumentPerShellWord ==
    \A p \in Procs :
        (Built(p) /\ split(call[p].exec_line).ok) =>
            Len(call[p].result.args) = Len(split(call[p].exec_line).words)

\* A helper command has been built and run.
Ran(p) ==
    /\ Done(p)
    /\ call[p].op \in {"generate_thumbnail_command",
                       "thumbnailify_generate_thumbnail_command"}
    /\ call[p].command.ok

\* C31: an Exec token that is %i becomes the source's canonical absolute
\* path, never its file name, and under the sandbox that same path is bound
\* read-only.
C31_InputTokenIsCanonicalPath ==
    \A p \in Procs :
        Ran(p) =>
            /\ \A k \in 1..Len(call[p].result.tokens) :
                  call[p].result.tokens[k] = <<"%", "i">>
                      => call[p].command.argv[k] = call[p].input
            /\ call[p].command.sandbox => call[p].input \in call[p].command.ro_binds

\* C32: when bwrap is on PATH the helper runs only under it, with the
\* thumbnail directory as the one writable bind and the source bound
\* read-only; when bwrap is not on PATH the same arguments are run directly;
\* either way the exit status alone decides between commit and fail marker.
C32_HelperRunsUnderBwrapWhenPresent ==
    \A p \in Procs :
        Ran(p) =>
            /\ call[p].command.sandbox = call[p].bwrap
            /\ call[p].command.argv = call[p].result.args
            /\ call[p].command.sandbox =>
                  /\ call[p].command.rw_binds = {ThumbDirText}
                  /\ call[p].input \in call[p].command.ro_binds
            /\ call[p].next = IF call[p].exit = "zero" THEN "commit" ELSE "fail_marker"

Min(a, b) == IF a <= b THEN a ELSE b

\* The destination dimensions of an image with size have been computed.
Scaled(p) ==
    /\ Done(p)
    /\ call[p].op = "thumbnail_generate_thumbnail"
    /\ call[p].width > 0 /\ call[p].height > 0

C34_AspectRatioWithinRounding ==
    \A p \in Procs :
        Scaled(p) =>
            LET w == call[p].width
                h == call[p].height
                dw == call[p].dims.dst_width
                dh == call[p].dims.dst_height
                diff == dw * h - w * dh
            IN /\ dw >= 1 /\ dh >= 1
               /\ (IF diff >= 0 THEN diff ELSE 0 - diff) * Min(dw, dh) <= dh * h

\* The call ended in a failure and the fail marker of its source is up to date.
FailureRecorded(p) ==
    /\ Done(p)
    /\ call[p].op \in {"generate_thumbnail", "create_thumbnails"}
    /\ call[p].hash # "none"
    /\ call[p].outcome \in {"helper_failed", "decode_failed"}
    /\ Fresh(fs[FailOf(p)])

\* C35: the fail marker is keyed by the source's fingerprint and not by the
\* size: after a failure at one size a request for any size, whatever helper
\* is installed and whether or not an up-to-date thumbnail of that size
\* exists, ends at the check of that same fail marker.
C35_FailMarkerCoversEverySize ==
    \A p \in Procs :
        FailureRecorded(p) =>
            /\ \A size \in Sizes, cfg \in Configs :
                  LET r == generate_thumbnail_check(call[p].file, size, cfg)
                  IN r.outcome = "hit_neg" /\ r.path = FailOf(p)
            /\ \A sizes \in SizeLists :
                  create_thumbnails_check(call[p].file, sizes) = "hit_neg"

\* The helper failed at one size while an up-to-date thumbnail of the other
\* size exists.
C35_Witness ==
    \E p \in Procs :
        /\ FailureRecorded(p)
        /\ call[p].op = "generate_thumbnail"
        /\ \E size \in Sizes :
              /\ size # call[p].sizes[1]
              /\ Fresh(fs[get_thumbnail_hash_output(call[p].hash, size)])

\* add_thumbnail_metadata has succeeded on the helper's output.
Attached(p) ==
    /\ call[p].op = "generate_thumbnail"
    /\ call[p].pc = "persist"

\* C36: once add_thumbnail_metadata(file, source) has succeeded on what the
\* helper wrote, is_thumbnail_up_to_date(file, source) is true, also when the
\* helper's PNG carried a Thumb::MTime or Thumb::Size of its own with other
\* values.
C36_AttachedProvenanceIsFresh ==
    \A p \in Procs :
        Attached(p) => is_thumbnail_up_to_date(temps[p], src)

\* The call has returned and the source was rewritten while it was in
\* progress, after the call had read it and before it recorded provenance.
ReturnedAfterRewrite(p) ==
    /\ Done(p)
    /\ call[p].op \in {"generate_thumbnail", "create_thumbnails"}
    /\ call[p].hash # "none"
    /\ touched

\* C37: when the source is rewritten while a call is in progress, after the
\* helper or decoder has read it and before provenance is attached, the
\* thumbnail the call leaves is not judged up to date against the rewritten
\* source: the recorded Thumb::MTime and Thumb::Size are those of the version
\* the pixels were made from.
C37_RewrittenSourceIsNotJudgedFresh ==
    \A p \in Procs :
        ReturnedAfterRewrite(p) =>
            \A i \in 1..Len(call[p].sizes) : ~Fresh(fs[ThumbOf(p, i)])

\* Two calls for the same source have both run the helper, seen it exit with
\* a status other than 0, and returned.
BothHelperFailed(p, q) ==
    /\ p # q
    /\ Done(p) /\ Done(q)
    /\ call[p].op = "generate_thumbnail" /\ call[q].op = "generate_thumbnail"
    /\ call[p].exit = "nonzero" /\ call[q].exit = "nonzero"
    /\ call[p].hash = call[q].hash

\* C38: when two generate_thumbnail calls for the same source both end in a
\* helper failure, with their fail-marker writes interleaved in any way, the
\* fail marker is, once both have returned, a complete 1x1 PNG with
\* provenance that is up to date for the source; and at no moment does the
\* fail-marker check of a request accept a marker that is not a PNG with
\* provenance.
C38_ConcurrentFailuresLeaveFreshMarker ==
    /\ \A p \in Procs, q \in Procs :
          BothHelperFailed(p, q) =>
              /\ fs[FailOf(p)].kind = "png"
              /\ fs[FailOf(p)].pix = "blank1x1"
              /\ HasProvenance(fs[FailOf(p)])
              /\ Fresh(fs[FailOf(p)])
    /\ \A size \in Sizes, cfg \in Configs :
          LET r == generate_thumbnail_check(CanonPath, size, cfg)
          IN r.outcome = "hit_neg" =>
                /\ fs[r.path].kind = "png"
                /\ HasProvenance(fs[r.path])

\* Both calls failed, and one of them found the marker truncated by the other
\* when it came to attach the provenance.
C38_Witness ==
    /\ BothHelperFailed(1, 2)
    /\ call[1].outcome = "helper_failed"
    /\ call[2].outcome = "marker_failed"

\* The cache paths a generate_thumbnail call may write: the thumbnail of its
\* source and size, and the fail marker of its source.
OwnPaths(c) ==
    { get_thumbnail_hash_output(c.hash, c.sizes[1]),
      get_failed_thumbnail_output(c.hash) }

====
